---- MODULE Spec2Model ----
(***************************************************************************)
(* CHIP-8 interpreter core: the instruction decoder (src/src/instruction.rs)*)
(* and the CPU execution step with its call stack (src/src/cpu.rs).         *)
(***************************************************************************)
EXTENDS Integers, Sequences, FiniteSets

(***************************************************************************)
(* Program constants.                                                       *)
(***************************************************************************)
FONT_BASE_ADDRESS == 256
FONT_CHAR_SIZE == 5
MemSize == 4096
StackSize == 16
NumRegs == 16
ProgramStart == 512
Word16 == 65536

Byte    == 0..255
Nibble  == 0..15

(***************************************************************************)
(* Fixed-width arithmetic of the Rust integer types.                        *)
(***************************************************************************)
Pow2(n) == 2 ^ n

\* (v >> n) & 0xf on a u16
NibbleAt(v, n) == (v \div Pow2(n)) % 16

Bit(v, i) == (v \div Pow2(i)) % 2

RECURSIVE BitwiseFrom(_, _, _, _)
BitwiseFrom(op, a, b, i) ==
    IF i = 8 THEN 0
    ELSE LET r == CASE op = "or"  -> IF Bit(a, i) + Bit(b, i) > 0 THEN 1 ELSE 0
                    [] op = "and" -> Bit(a, i) * Bit(b, i)
                    [] op = "xor" -> (Bit(a, i) + Bit(b, i)) % 2
         IN  r * Pow2(i) + BitwiseFrom(op, a, b, i + 1)

\* u8 | u8, u8 & u8, u8 ^ u8
BitOr(a, b)  == BitwiseFrom("or", a, b, 0)
BitAnd(a, b) == BitwiseFrom("and", a, b, 0)
BitXor(a, b) == BitwiseFrom("xor", a, b, 0)

\* u8::overflowing_add: the wrapped sum and whether it overflowed 8 bits
overflowing_add(a, b) == <<(a + b) % 256, a + b > 255>>

\* u8::overflowing_sub: the wrapped difference and whether it borrowed
overflowing_sub(a, b) == <<(a - b) % 256, a < b>>

\* u8::overflowing_shr: the value shifted by rhs masked to the bit width, and
\* whether rhs was at least the bit width (NOT the bit shifted out)
overflowing_shr(a, rhs) == <<a \div Pow2(rhs % 8), rhs >= 8>>

\* u8::overflowing_shl: as overflowing_shr, to the left, truncated to 8 bits
overflowing_shl(a, rhs) == <<(a * Pow2(rhs % 8)) % 256, rhs >= 8>>

\* u16::wrapping_add
wrapping_add16(a, b) == (a + b) % Word16

(***************************************************************************)
(* instruction.rs: operand assembly and Instruction::decode.               *)
(* An Instruction value is a tuple <<variant, operands...>>; a panic of    *)
(* decode is the value DecodePanic.                                        *)
(***************************************************************************)
assemble_address(n0, n1, n2) == (n0 % 16) + (n1 % 16) * 16 + (n2 % 16) * 256

\* mutant: the two nibbles of the byte in the wrong order
assemble_byte_swapped(k0, k1) == (k1 % 16) + (k0 % 16) * 16

assemble_byte(k0, k1) == (k0 % 16) + (k1 % 16) * 16

DecodePanic == <<"panic">>

\* mutant: an unmatched word decodes to a default instead of panicking
decode_invalid_default(source) == <<"Cls">>

\* the last arm of the match: _ => panic!("decoded invalid instruction: ...")
decode_invalid(source) == DecodePanic

decode(source) ==
    LET n0 == NibbleAt(source, 0)
        n1 == NibbleAt(source, 4)
        n2 == NibbleAt(source, 8)
        n3 == NibbleAt(source, 12)
    IN  CASE n3 = 0 /\ n2 = 0 /\ n1 = 14 /\ n0 = 0  -> <<"Cls">>
          [] n3 = 0 /\ n2 = 0 /\ n1 = 14 /\ n0 = 14 -> <<"Ret">>
          [] n3 = 1  -> <<"JpImm", assemble_address(n0, n1, n2)>>
          [] n3 = 2  -> <<"Call", assemble_address(n0, n1, n2)>>
          [] n3 = 3  -> <<"SeImm", n2, assemble_byte(n0, n1)>>
          [] n3 = 4  -> <<"SneImm", n2, assemble_byte(n0, n1)>>
          [] n3 = 5 /\ n0 = 0  -> <<"SeReg", n2, n1>>
          [] n3 = 6  -> <<"LdImm", n2, assemble_byte(n0, n1)>>
          [] n3 = 7  -> <<"AddImm", n2, assemble_byte(n0, n1)>>
          [] n3 = 8 /\ n0 = 0  -> <<"LdReg", n2, n1>>
          [] n3 = 8 /\ n0 = 1  -> <<"OrReg", n2, n1>>
          [] n3 = 8 /\ n0 = 2  -> <<"AndReg", n2, n1>>
          [] n3 = 8 /\ n0 = 3  -> <<"XorReg", n2, n1>>
          [] n3 = 8 /\ n0 = 4  -> <<"AddReg", n2, n1>>
          [] n3 = 8 /\ n0 = 5  -> <<"SubReg", n2, n1>>
          [] n3 = 8 /\ n0 = 6  -> <<"Shr", n2, n1>>
          [] n3 = 8 /\ n0 = 7  -> <<"Subn", n2, n1>>
          [] n3 = 8 /\ n0 = 14 -> <<"Shl", n2, n1>>
          [] n3 = 9 /\ n0 = 0  -> <<"SneReg", n2, n1>>
          [] n3 = 10 -> <<"LdI", assemble_address(n0, n1, n2)>>
          [] n3 = 11 -> <<"JpReg", assemble_address(n0, n1, n2)>>
          [] n3 = 12 -> <<"Rnd", n2, assemble_byte(n0, n1)>>
          [] n3 = 13 -> <<"Drw", n2, n1, n0>>
          [] n3 = 14 /\ n1 = 9  /\ n0 = 14 -> <<"Skp", n2>>
          [] n3 = 14 /\ n1 = 10 /\ n0 = 1  -> <<"Sknp", n2>>
          [] n3 = 15 /\ n1 = 0 /\ n0 = 7  -> <<"LdRegDt", n2>>
          [] n3 = 15 /\ n1 = 0 /\ n0 = 10 -> <<"LdRegK", n2>>
          [] n3 = 15 /\ n1 = 1 /\ n0 = 5  -> <<"LdDtReg", n2>>
          [] n3 = 15 /\ n1 = 1 /\ n0 = 8  -> <<"LdStReg", n2>>
          [] n3 = 15 /\ n1 = 1 /\ n0 = 14 -> <<"AddI", n2>>
          [] n3 = 15 /\ n1 = 2 /\ n0 = 9  -> <<"LdF", n2>>
          [] n3 = 15 /\ n1 = 3 /\ n0 = 3  -> <<"LdB", n2>>
          [] n3 = 15 /\ n1 = 5 /\ n0 = 5  -> <<"LdMemReg", n2>>
          [] n3 = 15 /\ n1 = 6 /\ n0 = 5  -> <<"LdRegMem", n2>>
          [] OTHER -> decode_invalid(source)


(***************************************************************************)
(* State.  The Cpu's fields, the locals of Cpu::cycle that the claims      *)
(* observe (instr_word, instr), the panic that ended the run if any, and   *)
(* the variables of the two unit harnesses (decode table, stack).          *)
(*                                                                         *)
(* memory is the [u8; 4096] array held as its non-zero bytes: a function   *)
(* whose domain is the set of addresses holding a non-zero byte.  stack is *)
(* the Stack struct: bytes (slots 0..15) and sp.                           *)
(***************************************************************************)
VARIABLES pc, index, reg, delay_timer, sound_timer, memory, stack,
          instr_word, instr, panic,
          source, decoded, want,
          pushed, popped

cpuVars  == <<pc, index, reg, delay_timer, sound_timer, memory, stack,
              instr_word, instr, panic>>
testVars == <<source, decoded, want, pushed, popped>>
vars     == <<pc, index, reg, delay_timer, sound_timer, memory, stack,
              instr_word, instr, panic, source, decoded, want, pushed, popped>>

NoInstr == <<"none">>
NoWord  == 0 - 1

\* panic messages of the Rust runtime and of the code
NoPanic      == "none"
IndexPanic   == "index out of bounds"
InvalidPanic == "decoded invalid instruction"
TodoPanic    == "not yet implemented"

(***************************************************************************)
(* The memory array.                                                       *)
(***************************************************************************)
MemRead(m, a) == IF a \in DOMAIN m THEN m[a] ELSE 0

MemWrite(m, a, v) ==
    IF v = 0 THEN [b \in DOMAIN m \ {a} |-> m[b]]
    ELSE [b \in DOMAIN m \cup {a} |-> IF b = a THEN v ELSE m[b]]

\* mutant: the bound off by one
InBounds_inclusive(a) == a >= 0 /\ a <= MemSize

InBounds(a) == a >= 0 /\ a < MemSize

\* [0; 4096]
EmptyMemory == [a \in {} |-> 0]

(***************************************************************************)
(* cpu.rs: Stack.                                                          *)
(***************************************************************************)
StackNew == [bytes |-> [i \in 0..(StackSize - 1) |-> 0], sp |-> 0]

\* mutant: the pointer is advanced before the store
push_increment_first(s, data) ==
    LET sp1 == IF s.sp + 1 > 15 THEN 0 ELSE s.sp + 1
    IN  [bytes |-> [s.bytes EXCEPT ![sp1] = data], sp |-> sp1]

\* mutant: the pointer is not wrapped
push_no_wrap(s, data) == [bytes |-> [s.bytes EXCEPT ![s.sp] = data], sp |-> s.sp + 1]

\* Stack::push
push(s, data) ==
    LET sp1 == s.sp + 1
    IN  [bytes |-> [s.bytes EXCEPT ![s.sp] = data],
         sp    |-> IF sp1 > 15 THEN 0 ELSE sp1]

\* mutant: the pointer stays at 0 instead of wrapping to 15
pop_saturating(s) == [s EXCEPT !.sp = IF s.sp = 0 THEN 0 ELSE s.sp - 1]

\* Stack::pop: the stack after the pop; the value returned is PopValue
pop(s) == [s EXCEPT !.sp = IF s.sp = 0 THEN 15 ELSE s.sp - 1]

PopValue(s) == pop(s).bytes[pop(s).sp]

(***************************************************************************)
(* cpu.rs: Cpu::new and the arms of the match in Cpu::cycle.  Each arm     *)
(* maps the Cpu c (PC already advanced by 2) to the Cpu after the arm.     *)
(***************************************************************************)
CpuNew ==
    [pc |-> ProgramStart, index |-> 0, reg |-> [i \in 0..(NumRegs - 1) |-> 0],
     delay_timer |-> 0, sound_timer |-> 0, memory |-> EmptyMemory,
     stack |-> StackNew, panic |-> NoPanic]

Todo(c) == [c EXCEPT !.panic = TodoPanic]

ExecCls(c) == Todo(c)

ExecRet(c) == [c EXCEPT !.pc = PopValue(c.stack), !.stack = pop(c.stack)]

ExecJpImm(c, addr) == [c EXCEPT !.pc = addr]

ExecCall(c, addr) == [c EXCEPT !.stack = push(c.stack, c.pc), !.pc = addr]

ExecSeImm(c, vx, imm) == IF c.reg[vx] = imm THEN [c EXCEPT !.pc = c.pc + 2] ELSE c

ExecSneImm(c, vx, imm) == IF c.reg[vx] # imm THEN [c EXCEPT !.pc = c.pc + 2] ELSE c

\* mutant: the comparison of SneReg, as the doc comment of SeReg reads
ExecSeReg_ne(c, vx, vy) == IF c.reg[vx] # c.reg[vy] THEN [c EXCEPT !.pc = c.pc + 2] ELSE c

ExecSeReg(c, vx, vy) == IF c.reg[vx] = c.reg[vy] THEN [c EXCEPT !.pc = c.pc + 2] ELSE c

ExecLdImm(c, vx, imm) == [c EXCEPT !.reg[vx] = imm]

ExecAddImm(c, vx, imm) == [c EXCEPT !.reg[vx] = overflowing_add(c.reg[vx], imm)[1]]

ExecLdReg(c, vx, vy) == [c EXCEPT !.reg[vx] = c.reg[vy]]

ExecOrReg(c, vx, vy) == [c EXCEPT !.reg[vx] = BitOr(c.reg[vx], c.reg[vy])]

ExecAndReg(c, vx, vy) == [c EXCEPT !.reg[vx] = BitAnd(c.reg[vx], c.reg[vy])]

ExecXorReg(c, vx, vy) == [c EXCEPT !.reg[vx] = BitXor(c.reg[vx], c.reg[vy])]

\* the result is stored in reg[vx] first, the flag in reg[0xf] second
SetResultThenFlag(c, vx, result, flag) ==
    [c EXCEPT !.reg = [[c.reg EXCEPT ![vx] = result] EXCEPT ![15] = IF flag THEN 1 ELSE 0]]

\* mutant: the flag is written before the result
ExecAddReg_flag_first(c, vx, vy) ==
    LET r == overflowing_add(c.reg[vx], c.reg[vy])
    IN  [c EXCEPT !.reg = [[c.reg EXCEPT ![15] = IF r[2] THEN 1 ELSE 0] EXCEPT ![vx] = r[1]]]

ExecAddReg(c, vx, vy) ==
    LET r == overflowing_add(c.reg[vx], c.reg[vy])
    IN  SetResultThenFlag(c, vx, r[1], r[2])

\* mutant: VF is the borrow instead of NOT borrow
ExecSubReg_borrow(c, vx, vy) ==
    LET r == overflowing_sub(c.reg[vx], c.reg[vy])
    IN  SetResultThenFlag(c, vx, r[1], r[2])

ExecSubReg(c, vx, vy) ==
    LET r == overflowing_sub(c.reg[vx], c.reg[vy])
    IN  SetResultThenFlag(c, vx, r[1], ~r[2])

ExecShr(c, vx, vy) ==
    LET r == overflowing_shr(c.reg[vx], 1)
    IN  SetResultThenFlag(c, vx, r[1], r[2])

ExecSubn(c, vx, vy) ==
    LET r == overflowing_sub(c.reg[vy], c.reg[vx])
    IN  SetResultThenFlag(c, vx, r[1], ~r[2])

ExecShl(c, vx, vy) ==
    LET r == overflowing_shl(c.reg[vx], 1)
    IN  SetResultThenFlag(c, vx, r[1], r[2])

ExecSneReg(c, vx, vy) == IF c.reg[vx] # c.reg[vy] THEN [c EXCEPT !.pc = c.pc + 2] ELSE c

ExecLdI(c, addr) == [c EXCEPT !.index = addr]

ExecJpReg(c, addr) == [c EXCEPT !.pc = addr + c.reg[0]]

ExecRnd(c, vx, imm) == Todo(c)

ExecDrw(c, vx, vy, n) == Todo(c)

ExecSkp(c, vx) == Todo(c)

ExecSknp(c, vx) == Todo(c)

ExecLdRegDt(c, vx) == [c EXCEPT !.reg[vx] = c.delay_timer]

ExecLdRegK(c, vx) == Todo(c)

ExecLdDtReg(c, vx) == [c EXCEPT !.delay_timer = c.reg[vx]]

\* mutant: the sound-timer arm writes the delay timer
ExecLdStReg_delay(c, vx) == [c EXCEPT !.delay_timer = c.reg[vx]]

ExecLdStReg(c, vx) == [c EXCEPT !.sound_timer = c.reg[vx]]

ExecAddI(c, vx) == [c EXCEPT !.index = wrapping_add16(c.index, c.reg[vx])]

ExecLdF(c, vx) == [c EXCEPT !.index = FONT_BASE_ADDRESS + vx * FONT_CHAR_SIZE]

ExecLdB(c, vx) == Todo(c)

\* for i in 0..=vx { memory[index + i] = reg[i] }: the iterations from i on;
\* an index past the array panics and leaves the earlier writes in place
RECURSIVE LdMemRegFrom(_, _, _)
LdMemRegFrom(c, i, vx) ==
    IF i > vx THEN c
    ELSE IF ~InBounds(c.index + i) THEN [c EXCEPT !.panic = IndexPanic]
    ELSE LdMemRegFrom([c EXCEPT !.memory = MemWrite(c.memory, c.index + i, c.reg[i])],
                      i + 1, vx)

\* mutant: the exclusive range 0..vx
ExecLdMemReg_exclusive(c, vx) == LdMemRegFrom(c, 0, vx - 1)

ExecLdMemReg(c, vx) == LdMemRegFrom(c, 0, vx)

\* for i in 0..=vx { reg[i] = memory[index + i] }
RECURSIVE LdRegMemFrom(_, _, _)
LdRegMemFrom(c, i, vx) ==
    IF i > vx THEN c
    ELSE IF ~InBounds(c.index + i) THEN [c EXCEPT !.panic = IndexPanic]
    ELSE LdRegMemFrom([c EXCEPT !.reg[i] = MemRead(c.memory, c.index + i)], i + 1, vx)

ExecLdRegMem(c, vx) == LdRegMemFrom(c, 0, vx)

\* the match of Cpu::cycle
Execute(c, i) ==
    CASE i[1] = "Cls"      -> ExecCls(c)
      [] i[1] = "Ret"      -> ExecRet(c)
      [] i[1] = "JpImm"    -> ExecJpImm(c, i[2])
      [] i[1] = "Call"     -> ExecCall(c, i[2])
      [] i[1] = "SeImm"    -> ExecSeImm(c, i[2], i[3])
      [] i[1] = "SneImm"   -> ExecSneImm(c, i[2], i[3])
      [] i[1] = "SeReg"    -> ExecSeReg(c, i[2], i[3])
      [] i[1] = "LdImm"    -> ExecLdImm(c, i[2], i[3])
      [] i[1] = "AddImm"   -> ExecAddImm(c, i[2], i[3])
      [] i[1] = "LdReg"    -> ExecLdReg(c, i[2], i[3])
      [] i[1] = "OrReg"    -> ExecOrReg(c, i[2], i[3])
      [] i[1] = "AndReg"   -> ExecAndReg(c, i[2], i[3])
      [] i[1] = "XorReg"   -> ExecXorReg(c, i[2], i[3])
      [] i[1] = "AddReg"   -> ExecAddReg(c, i[2], i[3])
      [] i[1] = "SubReg"   -> ExecSubReg(c, i[2], i[3])
      [] i[1] = "Shr"      -> ExecShr(c, i[2], i[3])
      [] i[1] = "Subn"     -> ExecSubn(c, i[2], i[3])
      [] i[1] = "Shl"      -> ExecShl(c, i[2], i[3])
      [] i[1] = "SneReg"   -> ExecSneReg(c, i[2], i[3])
      [] i[1] = "LdI"      -> ExecLdI(c, i[2])
      [] i[1] = "JpReg"    -> ExecJpReg(c, i[2])
      [] i[1] = "Rnd"      -> ExecRnd(c, i[2], i[3])
      [] i[1] = "Drw"      -> ExecDrw(c, i[2], i[3], i[4])
      [] i[1] = "Skp"      -> ExecSkp(c, i[2])
      [] i[1] = "Sknp"     -> ExecSknp(c, i[2])
      [] i[1] = "LdRegDt"  -> ExecLdRegDt(c, i[2])
      [] i[1] = "LdRegK"   -> ExecLdRegK(c, i[2])
      [] i[1] = "LdDtReg"  -> ExecLdDtReg(c, i[2])
      [] i[1] = "LdStReg"  -> ExecLdStReg(c, i[2])
      [] i[1] = "AddI"     -> ExecAddI(c, i[2])
      [] i[1] = "LdF"      -> ExecLdF(c, i[2])
      [] i[1] = "LdB"      -> ExecLdB(c, i[2])
      [] i[1] = "LdMemReg" -> ExecLdMemReg(c, i[2])
      [] i[1] = "LdRegMem" -> ExecLdRegMem(c, i[2])

\* the instruction word Cpu::cycle assembles from memory[pc] and memory[pc + 1]
FetchWord(c) ==
    LET instr_lo == MemRead(c.memory, c.pc)
        instr_hi == MemRead(c.memory, c.pc + 1)
    IN  instr_hi * 256 + instr_lo

\* mutant: only the first index expression is checked
FetchInBounds_first(c) == InBounds(c.pc)

\* whether both index expressions of the fetch are inside the array
FetchInBounds(c) == InBounds(c.pc) /\ InBounds(c.pc + 1)

\* mutant: the program counter is advanced before the word is decoded
cycle_increment_first(c) ==
    IF ~FetchInBounds(c) THEN [c EXCEPT !.panic = IndexPanic]
    ELSE IF decode(FetchWord(c)) = DecodePanic
         THEN [c EXCEPT !.pc = c.pc + 2, !.panic = InvalidPanic]
    ELSE Execute([c EXCEPT !.pc = c.pc + 2], decode(FetchWord(c)))

\* Cpu::cycle on the Cpu c: fetch, decode, pc += 2, match.  A panic leaves
\* the Cpu as it was when the panic was raised.
cycle(c) ==
    IF ~FetchInBounds(c) THEN [c EXCEPT !.panic = IndexPanic]
    ELSE IF decode(FetchWord(c)) = DecodePanic THEN [c EXCEPT !.panic = InvalidPanic]
    ELSE Execute([c EXCEPT !.pc = c.pc + 2], decode(FetchWord(c)))


(***************************************************************************)
(* The instruction set as words: the assembler's side of the decode table. *)
(* Used to write the memory images and the regression table of the decode  *)
(* harness; the code has no encoder.                                       *)
(***************************************************************************)
Encode(i) ==
    CASE i[1] = "Cls"      -> 224
      [] i[1] = "Ret"      -> 238
      [] i[1] = "JpImm"    -> 4096 + i[2]
      [] i[1] = "Call"     -> 2 * 4096 + i[2]
      [] i[1] = "SeImm"    -> 3 * 4096 + i[2] * 256 + i[3]
      [] i[1] = "SneImm"   -> 4 * 4096 + i[2] * 256 + i[3]
      [] i[1] = "SeReg"    -> 5 * 4096 + i[2] * 256 + i[3] * 16
      [] i[1] = "LdImm"    -> 6 * 4096 + i[2] * 256 + i[3]
      [] i[1] = "AddImm"   -> 7 * 4096 + i[2] * 256 + i[3]
      [] i[1] = "LdReg"    -> 8 * 4096 + i[2] * 256 + i[3] * 16
      [] i[1] = "OrReg"    -> 8 * 4096 + i[2] * 256 + i[3] * 16 + 1
      [] i[1] = "AndReg"   -> 8 * 4096 + i[2] * 256 + i[3] * 16 + 2
      [] i[1] = "XorReg"   -> 8 * 4096 + i[2] * 256 + i[3] * 16 + 3
      [] i[1] = "AddReg"   -> 8 * 4096 + i[2] * 256 + i[3] * 16 + 4
      [] i[1] = "SubReg"   -> 8 * 4096 + i[2] * 256 + i[3] * 16 + 5
      [] i[1] = "Shr"      -> 8 * 4096 + i[2] * 256 + i[3] * 16 + 6
      [] i[1] = "Subn"     -> 8 * 4096 + i[2] * 256 + i[3] * 16 + 7
      [] i[1] = "Shl"      -> 8 * 4096 + i[2] * 256 + i[3] * 16 + 14
      [] i[1] = "SneReg"   -> 9 * 4096 + i[2] * 256 + i[3] * 16
      [] i[1] = "LdI"      -> 10 * 4096 + i[2]
      [] i[1] = "JpReg"    -> 11 * 4096 + i[2]
      [] i[1] = "Rnd"      -> 12 * 4096 + i[2] * 256 + i[3]
      [] i[1] = "Drw"      -> 13 * 4096 + i[2] * 256 + i[3] * 16 + i[4]
      [] i[1] = "Skp"      -> 14 * 4096 + i[2] * 256 + 158
      [] i[1] = "Sknp"     -> 14 * 4096 + i[2] * 256 + 161
      [] i[1] = "LdRegDt"  -> 15 * 4096 + i[2] * 256 + 7
      [] i[1] = "LdRegK"   -> 15 * 4096 + i[2] * 256 + 10
      [] i[1] = "LdDtReg"  -> 15 * 4096 + i[2] * 256 + 21
      [] i[1] = "LdStReg"  -> 15 * 4096 + i[2] * 256 + 24
      [] i[1] = "AddI"     -> 15 * 4096 + i[2] * 256 + 30
      [] i[1] = "LdF"      -> 15 * 4096 + i[2] * 256 + 41
      [] i[1] = "LdB"      -> 15 * 4096 + i[2] * 256 + 51
      [] i[1] = "LdMemReg" -> 15 * 4096 + i[2] * 256 + 85
      [] i[1] = "LdRegMem" -> 15 * 4096 + i[2] * 256 + 101

AddrOps    == {"JpImm", "Call", "LdI", "JpReg"}
RegImmOps  == {"SeImm", "SneImm", "LdImm", "AddImm", "Rnd"}
RegRegOps  == {"SeReg", "LdReg", "OrReg", "AndReg", "XorReg", "AddReg", "SubReg",
               "Shr", "Subn", "Shl", "SneReg"}
RegOps     == {"Skp", "Sknp", "LdRegDt", "LdRegK", "LdDtReg", "LdStReg", "AddI",
               "LdF", "LdB", "LdMemReg", "LdRegMem"}

\* the variants of the Instruction enum
Variants == {"Cls", "Ret", "Drw"} \cup AddrOps \cup RegImmOps \cup RegRegOps \cup RegOps

\* every value of the Instruction enum whose operands are in range
Instructions ==
    {<<"Cls">>, <<"Ret">>}
    \cup {<<op, a>> : op \in AddrOps, a \in 0..4095}
    \cup {<<op, x, k>> : op \in RegImmOps, x \in Nibble, k \in Byte}
    \cup {<<op, x, y>> : op \in RegRegOps, x \in Nibble, y \in Nibble}
    \cup {<<"Drw", x, y, n>> : x \in Nibble, y \in Nibble, n \in Nibble}
    \cup {<<op, x>> : op \in RegOps, x \in Nibble}


(***************************************************************************)
(* Memory images.  The Cpu has no loader of its own: the program loader is *)
(* an external collaborator that fills memory before the first step.  An   *)
(* image is a set of words stored from given addresses, each word either   *)
(* low byte first ("le", the order Cpu::cycle assembles) or high byte first*)
(* ("be", the order of a CHIP-8 ROM).                                      *)
(***************************************************************************)
ProgLen   == 2
MaxDepth  == 16
MaxPushes == 17

StoreWord(m, addr, w, order) ==
    LET first  == IF order = "le" THEN w % 256 ELSE w \div 256
        second == IF order = "le" THEN w \div 256 ELSE w % 256
    IN  MemWrite(MemWrite(m, addr, first), addr + 1, second)

RECURSIVE StoreWords(_, _, _, _)
StoreWords(m, addr, words, order) ==
    IF words = <<>> THEN m
    ELSE StoreWords(StoreWord(m, addr, Head(words), order), addr + 2, Tail(words), order)

\* the program loaded at 0x200
Load(words, order) == StoreWords(EmptyMemory, ProgramStart, words, order)

RegSample  == {0, 1, 15}
ByteSample == {0, 1, 127, 128, 255}
AddrSample == {511, 512, 768, 4093, 4094, 4095}
LenSample  == {0, 1, 2, 15}

\* two registers loaded, then one register-register operation
AluImages ==
    {Load(<<Encode(<<"LdImm", x, a>>), Encode(<<"LdImm", y, b>>), Encode(<<op, x, y>>)>>, "le") :
        x \in RegSample, y \in RegSample, a \in ByteSample, b \in ByteSample, op \in RegRegOps}

\* one register loaded, then one register-immediate operation
ImmImages ==
    {Load(<<Encode(<<"LdImm", x, a>>), Encode(<<op, x, b>>)>>, "le") :
        x \in RegSample, a \in ByteSample, b \in ByteSample, op \in {"SeImm", "SneImm", "AddImm"}}

\* d nested calls, each to the next word, then a call to 0x300 holding tail
RECURSIVE CallChain(_, _)
CallChain(d, k) ==
    IF k = d THEN <<>>
    ELSE <<Encode(<<"Call", ProgramStart + 2 * (k + 1)>>)>> \o CallChain(d, k + 1)

CallImages ==
    {StoreWord(Load(CallChain(d, 0) \o <<Encode(<<"Call", 768>>)>>, "le"), 768, tail, "le") :
        d \in 0..MaxDepth, tail \in {Encode(<<"Ret">>), Encode(<<"JpImm", 768>>), 0}}

\* a call to itself, and a return to address 0 holding a return
LoopImages ==
    {Load(<<Encode(<<"Call", ProgramStart>>)>>, "le"),
     StoreWord(Load(<<Encode(<<"Ret">>)>>, "le"), 0, Encode(<<"Ret">>), "le")}

\* V0, V1 and I loaded, then a block transfer of x + 1 bytes
BlockImages ==
    {Load(<<Encode(<<"LdImm", 0, a>>), Encode(<<"LdImm", 1, b>>), Encode(<<"LdI", addr>>),
            Encode(<<op, x>>)>>, "le") :
        a \in ByteSample, b \in ByteSample, addr \in AddrSample, x \in LenSample,
        op \in {"LdMemReg", "LdRegMem"}}

\* I moved past the end of memory by AddI, then a block transfer
FarImages ==
    {Load(<<Encode(<<"LdImm", 0, a>>), Encode(<<"LdI", 4095>>), Encode(<<"AddI", 0>>),
            Encode(<<op, 0>>)>>, "le") :
        a \in ByteSample, op \in {"LdMemReg", "LdRegMem"}}

\* one word of every variant, and words that match no row of the table
GeneralWords ==
    {Encode(<<"Cls">>), Encode(<<"Ret">>), Encode(<<"JpImm", 516>>), Encode(<<"JpImm", 4095>>),
     Encode(<<"Call", 514>>), Encode(<<"SeImm", 10, 5>>), Encode(<<"SneImm", 10, 5>>),
     Encode(<<"SeReg", 10, 0>>), Encode(<<"LdImm", 10, 5>>), Encode(<<"LdImm", 0, 255>>),
     Encode(<<"AddImm", 10, 3>>), Encode(<<"AddImm", 10, 251>>), Encode(<<"LdReg", 1, 10>>),
     Encode(<<"OrReg", 10, 0>>), Encode(<<"AndReg", 10, 0>>), Encode(<<"XorReg", 10, 0>>),
     Encode(<<"AddReg", 10, 0>>), Encode(<<"SubReg", 10, 0>>), Encode(<<"Shr", 10, 0>>),
     Encode(<<"Subn", 10, 0>>), Encode(<<"Shl", 10, 0>>), Encode(<<"SneReg", 10, 0>>),
     Encode(<<"LdI", 768>>), Encode(<<"JpReg", 4095>>), Encode(<<"JpReg", 3840>>),
     Encode(<<"Rnd", 1, 15>>),
     Encode(<<"Drw", 0, 1, 5>>), Encode(<<"Skp", 1>>), Encode(<<"Sknp", 1>>),
     Encode(<<"LdRegDt", 1>>), Encode(<<"LdRegK", 1>>), Encode(<<"LdDtReg", 10>>),
     Encode(<<"LdStReg", 10>>), Encode(<<"AddI", 10>>), Encode(<<"LdF", 10>>),
     Encode(<<"LdB", 10>>), Encode(<<"LdMemReg", 1>>), Encode(<<"LdRegMem", 1>>),
     0, 239, 20481, 33032, 36865, 57344, 61695}

\* the words that set up state for the word after them
CoreWords ==
    {Encode(<<"LdImm", 10, 5>>), Encode(<<"LdImm", 0, 255>>), Encode(<<"AddImm", 10, 3>>),
     Encode(<<"AddImm", 10, 251>>), Encode(<<"LdReg", 1, 10>>), Encode(<<"LdI", 768>>),
     Encode(<<"JpImm", 516>>), Encode(<<"Call", 514>>), Encode(<<"Ret">>),
     Encode(<<"SeImm", 10, 5>>), Encode(<<"LdDtReg", 10>>), Encode(<<"LdStReg", 10>>),
     Encode(<<"AddI", 10>>), Encode(<<"LdRegMem", 1>>), Encode(<<"JpReg", 3840>>), 0}

\* the programs of n words: n - 1 core words, then any general word
RECURSIVE Prefixes(_)
Prefixes(n) ==
    IF n = 0 THEN {<<>>}
    ELSE {<<w>> \o p : w \in CoreWords, p \in Prefixes(n - 1)}

Programs(n) == {p \o <<w>> : p \in Prefixes(n - 1), w \in GeneralWords}

GeneralImages ==
    {Load(p, order) : p \in UNION {Programs(n) : n \in 1..ProgLen}, order \in {"le", "be"}}

\* the three-word scenario 0x6A05, 0x7A03, 0xFA29 (LdImm(10, 5), AddImm(10, 3),
\* LdF(10)) at 0x200, in the byte order given
ScenarioImage(order) ==
    Load(<<Encode(<<"LdImm", 10, 5>>), Encode(<<"AddImm", 10, 3>>), Encode(<<"LdF", 10>>)>>, order)

ScenarioImages == {ScenarioImage("be"), ScenarioImage("le")}

\* a jump to the last word of memory, 0xFFE, holding w, and a return at 0x300
EdgeImages ==
    {StoreWord(StoreWord(Load(<<Encode(<<"JpImm", 4094>>)>>, "le"), 4094, w, "le"),
               768, Encode(<<"Ret">>), "le") :
        w \in {Encode(<<"SeImm", 0, 0>>), Encode(<<"SneImm", 0, 0>>), Encode(<<"LdImm", 0, 1>>),
                Encode(<<"Call", 768>>), Encode(<<"Call", 4094>>), Encode(<<"JpReg", 4095>>)}}

Images == AluImages \cup ImmImages \cup CallImages \cup LoopImages \cup BlockImages
          \cup FarImages \cup GeneralImages \cup ScenarioImages \cup EdgeImages

(***************************************************************************)
(* The interpreter: Cpu::new, a loaded image, then Cpu::cycle repeatedly   *)
(* until a panic ends the run.                                             *)
(***************************************************************************)
Cur ==
    [pc |-> pc, index |-> index, reg |-> reg, delay_timer |-> delay_timer,
     sound_timer |-> sound_timer, memory |-> memory, stack |-> stack, panic |-> panic]

SetCpu(c) ==
    /\ pc' = c.pc
    /\ index' = c.index
    /\ reg' = c.reg
    /\ delay_timer' = c.delay_timer
    /\ sound_timer' = c.sound_timer
    /\ memory' = c.memory
    /\ stack' = c.stack
    /\ panic' = c.panic

NoTest ==
    /\ source = NoWord
    /\ decoded = NoInstr
    /\ want = NoInstr
    /\ pushed = <<>>
    /\ popped = <<>>

InitCpu ==
    /\ pc = CpuNew.pc
    /\ index = CpuNew.index
    /\ reg = CpuNew.reg
    /\ delay_timer = CpuNew.delay_timer
    /\ sound_timer = CpuNew.sound_timer
    /\ stack = CpuNew.stack
    /\ panic = CpuNew.panic
    /\ instr_word = NoWord
    /\ instr = NoInstr

Init ==
    /\ InitCpu
    /\ \E img \in Images : memory = img
    /\ NoTest

\* one call of Cpu::cycle
Cycle ==
    /\ panic = NoPanic
    /\ SetCpu(cycle(Cur))
    /\ instr_word' = IF FetchInBounds(Cur) THEN FetchWord(Cur) ELSE instr_word
    /\ instr' = IF FetchInBounds(Cur) THEN decode(FetchWord(Cur)) ELSE instr
    /\ UNCHANGED testVars

Next == Cycle

Spec == Init /\ [][Next]_vars


(***************************************************************************)
(* Decode harness: the regression table of tests::decode_test, extended to *)
(* every 16-bit word and to every in-range instruction value.  A row gives *)
(* the word and, when the row was written from an instruction, the         *)
(* instruction wanted.                                                     *)
(***************************************************************************)
InitDecode ==
    /\ InitCpu
    /\ memory = EmptyMemory
    /\ decoded = NoInstr
    /\ pushed = <<>>
    /\ popped = <<>>
    /\ \/ want = NoInstr /\ source \in 0..(Word16 - 1)
       \/ \E i \in Instructions : want = i /\ source = Encode(i)

Decode ==
    /\ decoded = NoInstr
    /\ decoded' = decode(source)
    /\ UNCHANGED <<cpuVars, source, want, pushed, popped>>

NextDecode == Decode

SpecDecode == InitDecode /\ [][NextDecode]_vars

(***************************************************************************)
(* Stack harness: a fresh Stack, consecutive pushes of distinct values,    *)
(* then consecutive pops.                                                  *)
(***************************************************************************)
PushBases == {0, 512, 65520}

InitStack ==
    /\ InitCpu
    /\ memory = EmptyMemory
    /\ source = NoWord
    /\ decoded = NoInstr
    /\ want = NoInstr
    /\ pushed = <<>>
    /\ popped = <<>>

Push ==
    /\ popped = <<>>
    /\ Len(pushed) < MaxPushes
    /\ \E v \in (IF pushed = <<>> THEN PushBases
                 ELSE {(pushed[Len(pushed)] + 2) % Word16}) :
          /\ stack' = push(stack, v)
          /\ pushed' = Append(pushed, v)
    /\ UNCHANGED <<pc, index, reg, delay_timer, sound_timer, memory, instr_word, instr,
                   panic, source, decoded, want, popped>>

Pop ==
    /\ Len(popped) < StackSize
    /\ stack' = pop(stack)
    /\ popped' = Append(popped, PopValue(stack))
    /\ UNCHANGED <<pc, index, reg, delay_timer, sound_timer, memory, instr_word, instr,
                   panic, source, decoded, want, pushed>>

NextStack == Push \/ Pop

SpecStack == InitStack /\ [][NextStack]_vars


(***************************************************************************)
(* Claims.                                                                 *)
(***************************************************************************)
\* the instruction the next call of Cpu::cycle decodes, when its fetch is in bounds
NextInstr == decode(FetchWord(Cur))

Stepping == panic = NoPanic /\ FetchInBounds(Cur)

\* the big-endian word at [pc, pc + 1]
BigEndianWord == MemRead(memory, pc) * 256 + MemRead(memory, pc + 1)

\* C1 (as claimed): every step decodes the big-endian word
\* memory[PC] * 256 + memory[PC + 1], and the operation's effect is applied to the
\* Cpu whose PC is already advanced by 2.
C1_BigEndianFetch ==
    [][Stepping =>
         /\ instr_word' = BigEndianWord
         /\ instr' = decode(BigEndianWord)
         /\ instr' # DecodePanic => Cur' = Execute([Cur EXCEPT !.pc = pc + 2], instr')]_vars

\* whether i is a value of the Instruction enum with operands in range
IsInstruction(i) ==
    \/ i \in {<<"Cls">>, <<"Ret">>}
    \/ Len(i) = 2 /\ i[1] \in AddrOps /\ i[2] \in 0..4095
    \/ Len(i) = 3 /\ i[1] \in RegImmOps /\ i[2] \in Nibble /\ i[3] \in Byte
    \/ Len(i) = 3 /\ i[1] \in RegRegOps /\ i[2] \in Nibble /\ i[3] \in Nibble
    \/ Len(i) = 4 /\ i[1] = "Drw" /\ i[2] \in Nibble /\ i[3] \in Nibble /\ i[4] \in Nibble
    \/ Len(i) = 2 /\ i[1] \in RegOps /\ i[2] \in Nibble

\* the words the claim lists as matching no row of the decode table
MatchesNoRow(w) ==
    LET high == w \div 4096
        lowNibble == w % 16
        lowByte == w % 256
    IN  \/ high = 0 /\ w \notin {224, 238}
        \/ high \in {5, 9} /\ lowNibble # 0
        \/ high = 8 /\ lowNibble \in (8..13) \cup {15}
        \/ high = 14 /\ lowByte \notin {158, 161}
        \/ high = 15 /\ lowByte \notin {7, 10, 21, 24, 30, 41, 51, 85, 101}

\* after decode has run on the word: the result is the fault or one of the
\* nVariants variants, and it is the fault exactly for the words matching no row
DecodeTotal(nVariants) ==
    decoded # NoInstr =>
        /\ decoded = DecodePanic \/ (IsInstruction(decoded) /\ decoded[1] \in Variants)
        /\ Cardinality(Variants) = nVariants
        /\ decoded = DecodePanic <=> MatchesNoRow(source)

\* C2 (as claimed): decode is total over the 65536 words, every word yields one of
\* the 35 instruction variants or the decode fault, and every word matching no row
\* of the table yields the decode fault.
C2_DecodeTotal35 == DecodeTotal(35)

\* C2 (amended): decode is total over the 65536 words, every word yields one of
\* the 34 instruction variants or the decode fault, and a word yields the decode
\* fault exactly when it matches no row of the table.
C2_DecodeTotal == DecodeTotal(34)

\* C2 witness: a word matching no row (0x8008) has been decoded to the fault
C2_Witness == source = 32776 /\ decoded = DecodePanic

\* the operand fields of the word w
FieldX(w)    == (w \div 256) % 16
FieldY(w)    == (w \div 16) % 16
FieldByte(w) == w % 256
FieldAddr(w) == w % 4096
FieldN(w)    == w % 16

DecodeExact(nVariants) ==
    (decoded # NoInstr /\ decoded # DecodePanic) =>
        /\ decoded[1] \in Variants /\ Cardinality(Variants) = nVariants
        \* the operands are the fields of the word
        /\ decoded[1] \in AddrOps => decoded[2] = FieldAddr(source)
        /\ decoded[1] \in RegImmOps =>
              decoded[2] = FieldX(source) /\ decoded[3] = FieldByte(source)
        /\ decoded[1] \in RegRegOps \cup {"Drw"} =>
              decoded[2] = FieldX(source) /\ decoded[3] = FieldY(source)
        /\ decoded[1] = "Drw" => decoded[4] = FieldN(source)
        /\ decoded[1] \in RegOps => decoded[2] = FieldX(source)
        \* the variant is the table's: the word is the instruction's encoding, so
        \* no other word decodes to the same instruction
        /\ Encode(decoded) = source
        \* every in-range instruction is what its encoding decodes to
        /\ want # NoInstr => decoded = want

\* C3 (as claimed): a valid word decodes to the table's variant with the exact
\* operand fields, each of the 35 variants with any in-range operands is produced
\* by some word, and two distinct valid words never decode to the same instruction.
C3_DecodeExact35 == DecodeExact(35)

\* C3 (amended): the same with the 34 variants the Instruction enum has.
C3_DecodeExact == DecodeExact(34)

\* C3 witness: the row written from SeImm(3, 0x81) has been decoded from 0x3381
C3_Witness == want = <<"SeImm", 3, 129>> /\ source = 13185 /\ decoded = want


(***************************************************************************)
(* Claims about one step of Cpu::cycle, stated on the step that executes   *)
(* the instruction.                                                        *)
(***************************************************************************)
Executing(op) == Stepping /\ NextInstr[1] = op

FlagOf(b) == IF b THEN 1 ELSE 0

\* C4: a step executing AddReg(x, y) leaves VF = 1 iff the pre-step Vx + Vy > 255,
\* else 0, and Vx = (Vx + Vy) mod 256; the flag is written last, so for x = 15 the
\* register holds the flag.
C4_AddReg ==
    [][Executing("AddReg") =>
         LET x == NextInstr[2]
             y == NextInstr[3]
             sum == reg[x] + reg[y]
         IN  /\ reg'[15] = FlagOf(sum > 255)
             /\ x # 15 => reg'[x] = sum % 256
             /\ panic' = NoPanic]_vars

\* C4 witness: AddReg(15, 0) has run on V15 = 255, V0 = 1 (sum 0, carry 1) and
\* V15 holds the flag
C4_Witness ==
    /\ instr = <<"AddReg", 15, 0>>
    /\ MemRead(memory, 512) = 255
    /\ reg[0] = 1
    /\ reg[15] = 1

SubRegStep(strict) ==
    Executing("SubReg") =>
        LET x == NextInstr[2]
            y == NextInstr[3]
        IN  /\ reg'[15] = FlagOf(reg[x] >= reg[y])
            /\ (strict \/ x # 15) => reg'[x] = (reg[x] - reg[y]) % 256

SubnStep(strict) ==
    Executing("Subn") =>
        LET x == NextInstr[2]
            y == NextInstr[3]
        IN  /\ reg'[15] = FlagOf(reg[y] >= reg[x])
            /\ (strict \/ x # 15) => reg'[x] = (reg[y] - reg[x]) % 256

\* C5 (as claimed): a step executing SubReg(x, y) sets Vx to (Vx - Vy) mod 256 and
\* VF to 1 iff Vx >= Vy; a step executing Subn(x, y) sets Vx to (Vy - Vx) mod 256
\* and VF to 1 iff Vy >= Vx; for all x, y in 0..15, x = 15 included.
C5_SubAllRegisters == [][SubRegStep(TRUE) /\ SubnStep(TRUE)]_vars

\* C5 (amended): the same for x # 15; for x = 15 the flag is written last and VF
\* holds the flag, not the difference.
C5_Sub == [][SubRegStep(FALSE) /\ SubnStep(FALSE)]_vars

\* C5 witness: SubReg(15, 0) has run on V15 = 128, V0 = 1 (difference 127, no
\* borrow) and V15 holds the flag 1
C5_Witness ==
    /\ instr = <<"SubReg", 15, 0>>
    /\ MemRead(memory, 512) = 128
    /\ reg[0] = 1
    /\ reg[15] = 1

\* C6 (as claimed): after Shr(x, y) VF is the pre-step least-significant bit of Vx
\* and Vx is the pre-step Vx halved; after Shl(x, y) VF is the pre-step bit 7 of Vx
\* and Vx is (2 * Vx) mod 256.
C6_ShiftFlag ==
    [][/\ Executing("Shr") =>
            LET x == NextInstr[2]
            IN  /\ reg'[15] = reg[x] % 2
                /\ x # 15 => reg'[x] = reg[x] \div 2
       /\ Executing("Shl") =>
            LET x == NextInstr[2]
            IN  /\ reg'[15] = reg[x] \div 128
                /\ x # 15 => reg'[x] = (2 * reg[x]) % 256]_vars

SkipTaken ==
    LET i == NextInstr
    IN  CASE i[1] = "SeImm"  -> reg[i[2]] = i[3]
          [] i[1] = "SneImm" -> reg[i[2]] # i[3]
          [] i[1] = "SeReg"  -> reg[i[2]] = reg[i[3]]
          [] i[1] = "SneReg" -> reg[i[2]] # reg[i[3]]

\* C7: a step executing SeImm, SneImm, SeReg or SneReg advances PC by 4 when its
\* condition holds and by 2 otherwise, and changes nothing else.
C7_Skip ==
    [][(Stepping /\ NextInstr[1] \in {"SeImm", "SneImm", "SeReg", "SneReg"}) =>
         /\ pc' = pc + (IF SkipTaken THEN 4 ELSE 2)
         /\ UNCHANGED <<index, reg, delay_timer, sound_timer, memory, stack, panic>>]_vars

\* C7 witness: SeReg(0, 1) at 0x204 has skipped on V0 = V1 = 127
C7_Witness ==
    /\ instr = <<"SeReg", 0, 1>>
    /\ reg[0] = 127
    /\ reg[1] = 127
    /\ pc = 520

\* C8: a Call(addr) step at PC = p pushes p + 2 and sets PC to addr; when the
\* instruction at addr is Ret, the step after it ends with PC = p + 2 and the stack
\* pointer at its pre-call value, whatever that value was.
C8_CallRet ==
    [][Executing("Call") =>
         /\ pc' = NextInstr[2]
         /\ stack'.bytes[stack.sp] = pc + 2
         /\ stack'.sp = (stack.sp + 1) % 16
         /\ (FetchInBounds(Cur') /\ decode(FetchWord(Cur')) = <<"Ret">>) =>
               /\ cycle(Cur').panic = NoPanic
               /\ cycle(Cur').pc = pc + 2
               /\ cycle(Cur').stack.sp = stack.sp]_vars

\* C8 witness: after 15 nested calls the call at 0x21E (pointer 15, wrapping to 0)
\* has been returned from: PC = 0x220 and the pointer is 15 again
C8_Witness ==
    /\ instr = <<"Ret">>
    /\ pc = 544
    /\ stack.sp = 15
    /\ stack.bytes[15] = 544
    /\ stack.bytes[14] = 542

RECURSIVE Reverse(_)
Reverse(q) == IF q = <<>> THEN <<>> ELSE Reverse(Tail(q)) \o <<Head(q)>>

\* C9: on a fresh Stack the pops after 16 consecutive pushes return the pushed
\* values in reverse order; a 17th consecutive push does not fault (the pointer is
\* a valid slot index) and overwrites slot 0, leaving slots 1..15 unchanged.
C9_StackLifo ==
    /\ stack.sp \in 0..15
    /\ Len(pushed) = 16 => popped = SubSeq(Reverse(pushed), 1, Len(popped))
    /\ (Len(pushed) = 17 /\ popped = <<>>) =>
          /\ stack.bytes[0] = pushed[17]
          /\ \A k \in 1..15 : stack.bytes[k] = pushed[k + 1]
          /\ stack.sp = 1

\* C9 witness: 16 pushes from 0xFFF0 and 16 pops have run
C9_Witness ==
    /\ Len(pushed) = 16
    /\ Len(popped) = 16
    /\ pushed[1] = 65520
    /\ popped[16] = 65520

\* C10: a step executing LdMemReg(x) with I + x <= 4095 sets memory[I + i] to V[i]
\* for i in 0..x and leaves every other byte of memory, the registers, I, the
\* timers and the stack unchanged.
C10_LdMemReg ==
    [][(Executing("LdMemReg") /\ index + NextInstr[2] <= 4095) =>
         /\ \A a \in 0..(MemSize - 1) :
               MemRead(memory', a) =
                   IF a >= index /\ a <= index + NextInstr[2] THEN reg[a - index]
                   ELSE MemRead(memory, a)
         /\ UNCHANGED <<index, reg, delay_timer, sound_timer, stack, panic>>]_vars

\* C10 witness: LdMemReg(1) has stored V0 = 127, V1 = 255 at 0xFFE, 0xFFF
C10_Witness ==
    /\ instr = <<"LdMemReg", 1>>
    /\ index = 4094
    /\ panic = NoPanic
    /\ MemRead(memory, 4094) = 127
    /\ MemRead(memory, 4095) = 255


\* C11 (as claimed): a step executing LdF(x) sets I to FONT_BASE + Vx * 5, Vx being
\* the value held in register x, and changes no register.
C11_LdFDigit ==
    [][Executing("LdF") =>
         /\ index' = FONT_BASE_ADDRESS + reg[NextInstr[2]] * FONT_CHAR_SIZE
         /\ reg' = reg
         /\ panic' = NoPanic]_vars

\* C12 (as claimed): from a fresh Cpu whose memory holds 0x6A05, 0x7A03 and the
\* load-font of VA as a big-endian stream at 0x200, the three steps run without a
\* fault through PC = 0x200, 0x202, 0x204 and end with VA = 8,
\* I = FONT_BASE + 8 * 5 and PC = 0x206.
C12_Scenario ==
    memory = ScenarioImage("be") =>
        /\ pc \in {512, 514, 516, 518}
        /\ pc \in {512, 514, 516} => panic = NoPanic
        /\ pc = 518 => reg[10] = 8 /\ index = FONT_BASE_ADDRESS + 8 * FONT_CHAR_SIZE

\* the state a panic before the match leaves: nothing but the panic is set
OnlyPanics(p) ==
    /\ panic' = p
    /\ UNCHANGED <<pc, index, reg, delay_timer, sound_timer, memory, stack>>

\* C13: a step whose fetch has PC + 1 > 4095, or that executes LdMemReg(x) or
\* LdRegMem(x) with I + x > 4095, ends in the index-out-of-bounds panic, which is
\* not the decode panic; nothing is written below I and no register is loaded from
\* an address past the end taken modulo 4096.
C13_OutOfBounds ==
    [][/\ IndexPanic # InvalidPanic
       /\ (panic = NoPanic /\ pc + 1 > 4095) => OnlyPanics(IndexPanic) /\ instr' = instr
       /\ (Executing("LdMemReg") /\ index + NextInstr[2] > 4095) =>
             /\ panic' = IndexPanic
             /\ \A a \in 0..(MemSize - 1) :
                   a < index => MemRead(memory', a) = MemRead(memory, a)
       /\ (Executing("LdRegMem") /\ index + NextInstr[2] > 4095) =>
             /\ panic' = IndexPanic
             /\ memory' = memory
             /\ \A i \in 0..(NumRegs - 1) :
                   reg'[i] = IF i <= NextInstr[2] /\ index + i <= 4095
                             THEN MemRead(memory, index + i) ELSE reg[i]]_vars

\* C13 witness: LdMemReg(1) with I = 0xFFF has ended in the index panic
C13_Witness ==
    /\ instr = <<"LdMemReg", 1>>
    /\ index = 4095
    /\ panic = IndexPanic

\* C14 (as claimed): a step executing LdMemReg(x) or LdRegMem(x) with
\* I <= 4095 < I + x faults without having written any memory byte (LdMemReg) or
\* any register (LdRegMem).
C14_NoPartialEffect ==
    [][/\ (Executing("LdMemReg") /\ index <= 4095 /\ index + NextInstr[2] > 4095) =>
             panic' # NoPanic /\ memory' = memory
       /\ (Executing("LdRegMem") /\ index <= 4095 /\ index + NextInstr[2] > 4095) =>
             panic' # NoPanic /\ reg' = reg]_vars

\* C15 (as claimed): a step at LdRegK(x) does not fault: either no key has arrived
\* and it leaves PC and all other state unchanged, or a key k has arrived and it
\* sets Vx to k and advances PC by 2.
C15_KeyWait ==
    [][Executing("LdRegK") =>
         /\ panic' = NoPanic
         /\ UNCHANGED <<index, delay_timer, sound_timer, memory, stack>>
         /\ \/ pc' = pc /\ reg' = reg
            \/ \E k \in Nibble : pc' = pc + 2 /\ reg' = [reg EXCEPT ![NextInstr[2]] = k]]_vars


\* C16 (as claimed): a step executing LdB(x) with I + 2 <= 4095 stores the
\* hundreds, tens and ones digits of Vx at memory[I], memory[I + 1], memory[I + 2]
\* and leaves the registers and I unchanged.
C16_Bcd ==
    [][(Executing("LdB") /\ index + 2 <= 4095) =>
         LET v == reg[NextInstr[2]]
         IN  /\ panic' = NoPanic
             /\ MemRead(memory', index) = v \div 100
             /\ MemRead(memory', index + 1) = (v \div 10) % 10
             /\ MemRead(memory', index + 2) = v % 10
             /\ reg' = reg
             /\ index' = index]_vars

\* C17: the delay timer changes only in a step executing LdDtReg, the sound timer
\* only in a step executing LdStReg, and the stack (slots and pointer) only in a
\* step executing Call or Ret.
C17_DedicatedMutators ==
    [][/\ delay_timer' # delay_timer => Executing("LdDtReg")
       /\ sound_timer' # sound_timer => Executing("LdStReg")
       /\ stack' # stack => (Executing("Call") \/ Executing("Ret"))]_vars

\* C17 witness: LdStReg(10) has set the sound timer to V10 = 5 and the delay timer
\* is still 0
C17_Witness ==
    /\ instr = <<"LdStReg", 10>>
    /\ reg[10] = 5
    /\ sound_timer = 5
    /\ delay_timer = 0

\* C18: across Call and Ret steps the stack pointer stays in 0..15 and neither step
\* faults: a push at pointer 15 wraps it to 0; a Ret at pointer 0 wraps it to 15 and
\* sets PC to the content of slot 15.
C18_PointerWraps ==
    [][/\ stack'.sp \in 0..15
       /\ Executing("Call") =>
             /\ panic' = NoPanic
             /\ stack.sp = 15 => stack'.sp = 0
       /\ Executing("Ret") =>
             /\ panic' = NoPanic
             /\ stack.sp = 0 => (stack'.sp = 15 /\ pc' = stack.bytes[15])]_vars

\* C18 witness: Ret on the empty stack of a fresh Cpu has wrapped the pointer to 15
\* and set PC to slot 15, never written
C18_Witness ==
    /\ instr = <<"Ret">>
    /\ stack = [StackNew EXCEPT !.sp = 15]
    /\ pc = 0
    /\ panic = NoPanic

\* C19: a step whose fetched word matches no encoding ends in the decode panic with
\* PC, registers, I, memory, timers and stack as before the step; after the panic
\* no step changes the state.
C19_DecodeFaultFirst ==
    [][/\ (Stepping /\ NextInstr = DecodePanic) => OnlyPanics(InvalidPanic)
       /\ panic = InvalidPanic => UNCHANGED cpuVars]_vars

\* C19 witness: after LdImm(15, 128), LdImm(0, 1), SubReg(15, 0) the zero word at
\* 0x206 has ended the run in the decode panic with PC still 0x206
C19_Witness ==
    /\ panic = InvalidPanic
    /\ instr = DecodePanic
    /\ instr_word = 0
    /\ pc = 518
    /\ reg[0] = 1
    /\ reg[15] = 1

MaxPc == 4095 + 255

\* C20: PC never exceeds 0xFFF + 0xFF, a value only a JpReg step reaches; the sums
\* the step forms from PC (PC + 2, the skip's PC + 4) and from addr and V0 stay
\* below 2^16; a step from PC > 4094 ends in the index panic of the fetch with
\* nothing else changed.
C20_PcBound ==
    [][/\ pc' <= MaxPc
       /\ (pc' = MaxPc /\ pc # MaxPc) => Executing("JpReg")
       /\ pc + 4 < Word16
       /\ Executing("JpReg") => NextInstr[2] + reg[0] < Word16
       /\ (panic = NoPanic /\ pc > 4094) => OnlyPanics(IndexPanic)]_vars

\* C20 witness: JpReg(0xFFF) with V0 = 255 has set PC to 0x10FE and the next fetch
\* has panicked
C20_Witness ==
    /\ pc = MaxPc
    /\ instr = <<"JpReg", 4095>>
    /\ panic = IndexPanic

====
